---- MODULE Spec2Model ----
(***************************************************************************)
(* HearSay backend: the SSO identity resolver (users/views.py) over the    *)
(* account table (users/models.py).  Every request handler is a process;   *)
(* the database runs in autocommit mode (config/settings.py sets no        *)
(* ATOMIC_REQUESTS), so every ORM call is one atomic step on the table and *)
(* the steps of concurrent requests interleave.                            *)
(***************************************************************************)
EXTENDS Integers, Sequences, FiniteSets, TLC

(* ---- bounds ---- *)
MaxSubjects == 2      \* subject ids 1..MaxSubjects
MaxEmails == 2        \* e-mail addresses 1..MaxEmails, 0 is the blank string
MaxNames == 1         \* names 1..MaxNames, 0 is None / the blank string
MaxSuffix == 2        \* random username suffixes 1..MaxSuffix

(* ---- value spaces ---- *)
Procs == {"r1", "r2"}                \* two request handlers in flight
Providers == {"apple", "google"}
NullProvider == "null"
NullId == 0
NoEmail == 0
NoName == 0
UserPrefix == <<"u", "s", "e", "r">>  \* the literal 'user', by character
BlankPassword == ""                  \* AbstractUser.password left at its default
UnusablePassword == "!"              \* set_unusable_password()
NoUser == 0

SubjectIds == 1..MaxSubjects
Emails == 0..MaxEmails
Names == 0..MaxNames
Suffixes == 1..MaxSuffix

SSOUserInfo ==
  [provider : Providers, sso_id : SubjectIds, email : Emails,
   first_name : Names, last_name : Names]

\* The assertions of the racing requests: they carry no names
BareInfo == {i \in SSOUserInfo : i.first_name = NoName /\ i.last_name = NoName}

NoInfo ==
  [provider |-> NullProvider, sso_id |-> NullId, email |-> NoEmail,
   first_name |-> NoName, last_name |-> NoName]

NoUsername == <<>>

NoResponse == [status |-> 0, user |-> NoUser, path |-> "none"]

NoFound == [sso |-> -1, email |-> -1]

\* request.data.get(key) of a key the body does not carry
Missing == "missing"

NoRequest ==
  [provider |-> Missing, id_token |-> Missing, flaw |-> "none",
   dev_mode |-> FALSE, net |-> "up", token_email |-> NoEmail,
   verifier |-> "none", siblings |-> {}]

NoOps == [verifier |-> 0, lookups |-> 0, checks |-> 0, writes |-> 0]

(* JSON values of a request body: a type and a number that tells the values
   of one type apart; for bool 1 is true and 0 is false, as in Python *)
IntVal(n) == [type |-> "int", val |-> n]
BoolVal(n) == [type |-> "bool", val |-> n]
FloatVal(n) == [type |-> "float", val |-> n]
StrVal(n) == [type |-> "str", val |-> n]
ListVal(n) == [type |-> "list", val |-> n]
Null == [type |-> "null", val |-> 0]
Absent == [type |-> "missing", val |-> 0]

NoData ==
  [target_language |-> Missing, quiz_score |-> Absent, goals |-> Absent,
   sessions_per_week |-> Absent]

\* a complete_onboarding handler that serves no request
NoOnboarding ==
  [pc |-> "idle", user |-> NoUser, data |-> NoData, proficiency_level |-> "",
   status |-> 0]

\* no UserProfile object in memory
NoProfile == [user |-> NoUser]

\* a lesson_attempts handler that serves no request
NoLesson ==
  [pc |-> "idle", user |-> NoUser, method |-> "", lesson_id |-> 0,
   data |-> Absent, attempt |-> 0, profile |-> NoProfile, status |-> 0]

\* no request of update_current_user, logout or token refresh so far
NoAnswer ==
  [op |-> "none", user |-> NoUser, body |-> Absent, status |-> 0,
   revoked |-> {}]

\* config/settings.py with an empty environment
DefaultSettings == [DEBUG |-> FALSE, GOOGLE_CLIENT_ID |-> ""]

VARIABLES
  users,       \* the account table: row i is the account with primary key i
  pc,          \* where each request handler stands
  user_info,   \* the verified assertion the handler resolves
  username,    \* the candidate username of the provisioning path
  user,        \* primary key of the handler's in-memory User, or NoUser
  response,    \* the handler's answer: HTTP status, account, path taken
  found,       \* history: what the two lookups of this call returned
  fresh,       \* history: no account matched the assertion when the call began,
               \* and no call with another assertion has written since
  before,      \* history: the table when the first call of a sequence began
  callNo,      \* history: 1 for a first call, 2 for its immediate repetition
  first,       \* history: the response of the first call and the table after it
  request,     \* history: what the request in progress carried, and the
               \* outcomes of the requests that differ from it in the
               \* body's email only
  settings,    \* the deployment's settings (config/settings.py)
  ops,         \* history: the calls the request in progress has made so far
  call,        \* a call of generate_username: its arguments and its result
  profiles,    \* the UserProfile table: the profile of each account, if any
  onboarding,  \* where each complete_onboarding handler stands, with its locals
  attempts,    \* the Attempt table
  lesson,      \* where each lesson_attempts handler stands, with its locals
  issued,      \* the accounts whose tokens a client holds
  blacklist,   \* the refresh tokens the token_blacklist app has outstanding
               \* as blacklisted
  answer       \* history: the last request of update_current_user, logout or
               \* token refresh, its answer, and the valid refresh tokens
               \* logout has been called with

vars ==
  <<users, pc, user_info, username, user, response, found, fresh, before,
    callNo, first, request, settings, ops, call, profiles, onboarding,
    attempts, lesson, issued, blacklist, answer>>

\* the state of the lesson, logout and update_current_user handlers
later == <<attempts, lesson, issued, blacklist, answer>>

(* ---- the account table ---- *)

\* User.objects.filter(sso_provider=..., sso_id=...).first()
FilterBySso(us, provider, sso_id) ==
  LET hits == {i \in 1..Len(us) :
                 us[i].sso_provider = provider /\ us[i].sso_id = sso_id}
  IN IF hits = {} THEN NoUser ELSE CHOOSE i \in hits : \A j \in hits : i <= j

\* User.objects.filter(email=...).first()
FilterByEmail(us, email) ==
  LET hits == {i \in 1..Len(us) : us[i].email = email}
  IN IF hits = {} THEN NoUser ELSE CHOOSE i \in hits : \A j \in hits : i <= j

\* (mutant) every candidate counts as taken
UsernameExists_always(us, name) == TRUE

\* User.objects.filter(username=...).exists()
UsernameExists(us, name) ==
  \E i \in 1..Len(us) : us[i].username = name

\* (mutant) the email column loses its unique constraint
UniqueOk_noEmail(us, row, id) ==
  \A j \in 1..Len(us) :
    j # id =>
      /\ us[j].username # row.username
      /\ (row.sso_id # NullId => us[j].sso_id # row.sso_id)

\* The table's unique constraints, as the database applies them to a row
\* written under primary key id (0 for an INSERT): username, email, and
\* sso_id on its own (NULLs never collide).
UniqueOk(us, row, id) ==
  \A j \in 1..Len(us) :
    j # id =>
      /\ us[j].username # row.username
      /\ us[j].email # row.email
      /\ (row.sso_id # NullId => us[j].sso_id # row.sso_id)

(* strings are sequences of one-character strings *)

\* string.ascii_lowercase and string.digits
ascii_lowercase ==
  <<"a", "b", "c", "d", "e", "f", "g", "h", "i", "j", "k", "l", "m",
    "n", "o", "p", "q", "r", "s", "t", "u", "v", "w", "x", "y", "z">>
digits == <<"0", "1", "2", "3", "4", "5", "6", "7", "8", "9">>

PrefixLen == 20       \* [:20]
SuffixLen == 6        \* range(6)

\* s.split('@')[0]: s up to its first '@', all of s when it has none
SplitFirst(s) ==
  LET ats == {i \in 1..Len(s) : s[i] = "@"}
  IN IF ats = {} THEN s
     ELSE SubSeq(s, 1, (CHOOSE i \in ats : \A j \in ats : i <= j) - 1)

\* (mutant) the slice keeps everything
Slice_whole(s, n) == s

\* s[:n]
Slice(s, n) == SubSeq(s, 1, IF Len(s) < n THEN Len(s) ELSE n)

\* secrets.choice(seq), the draw being pick
choice(seq, pick) == seq[pick]

\* generate_username(email), picks being the draws of the six choices
generate_username(email, picks) ==
  LET prefix == Slice(SplitFirst(email), PrefixLen)
      suffix == [i \in 1..SuffixLen |->
                   choice(ascii_lowercase \o digits, picks[i])]
  IN prefix \o <<"_">> \o suffix

NoCall == [email |-> <<>>, picks |-> <<>>, result |-> <<>>, at |-> "none"]

\* The address an email of the model stands for: a@x, a@y, aa@x, aa@y, ...
Address(email) ==
  IF email = NoEmail THEN <<>>
  ELSE [i \in 1..((email + 1) \div 2) |-> "a"]
         \o <<"@", IF email % 2 = 1 THEN "x" ELSE "y">>

\* The draws of suffix number s: the s-th character six times
Draws(s) == [i \in 1..SuffixLen |-> s]

\* The row User.objects.create(...) inserts
NewUser(info, name) ==
  [username |-> name,
   email |-> info.email,
   first_name |-> info.first_name,
   last_name |-> info.last_name,
   sso_provider |-> info.provider,
   sso_id |-> info.sso_id,
   password |-> BlankPassword,
   onboarding_completed |-> FALSE]

\* (mutant) the password marker is never set
set_unusable_password_skipped(row) == row

\* user.set_unusable_password() on the in-memory object
set_unusable_password(row) == [row EXCEPT !.password = UnusablePassword]

NoFirst ==
  [status |-> 0, user |-> NoUser, path |-> "none", table |-> <<>>,
   info |-> NoInfo]

\* No account has the assertion's (provider, subject id) and none has its email
Unmatched(us, info) ==
  /\ FilterBySso(us, info.provider, info.sso_id) = NoUser
  /\ FilterByEmail(us, info.email) = NoUser

\* no handler serves a request and the histories are blank
IdleHandlers ==
  /\ pc = [p \in Procs |-> "idle"]
  /\ user_info = [p \in Procs |-> NoInfo]
  /\ username = [p \in Procs |-> NoUsername]
  /\ user = [p \in Procs |-> NoUser]
  /\ response = [p \in Procs |-> NoResponse]
  /\ found = [p \in Procs |-> NoFound]
  /\ fresh = [p \in Procs |-> FALSE]
  /\ before = <<>>
  /\ callNo = 0
  /\ first = NoFirst
  /\ request = NoRequest
  /\ ops = NoOps
  /\ onboarding = [p \in Procs |-> NoOnboarding]
  /\ attempts = <<>>
  /\ lesson = [p \in Procs |-> NoLesson]
  /\ blacklist = {}
  /\ answer = NoAnswer

\* no profile yet and no tokens in anybody's hands
Idle ==
  /\ IdleHandlers
  /\ profiles = <<>>
  /\ issued = {}

Init ==
  /\ users = <<>>
  /\ Idle
  /\ settings = DefaultSettings
  /\ call = NoCall

\* the history of the sequential client, which a handler's own steps leave alone
client ==
  <<before, callNo, first, request, settings, call, profiles, onboarding,
    later>>

\* history: a committed write of handler p ends the freshness of the calls
\* that carry another assertion
Stale(p) ==
  [q \in Procs |-> fresh[q] /\ user_info[q] = user_info[p]]

\* sso_authenticate answers: 200 with the account, or 500 from `except Exception`
Respond(p, status, id, path) ==
  /\ pc' = [pc EXCEPT ![p] = "done"]
  /\ response' = [response EXCEPT ![p] =
                    [status |-> status, user |-> id, path |-> path]]

\* sso_authenticate up to its call of find_or_create_user: the verifier
\* produced info
Begin(p, info) ==
  /\ pc[p] = "idle"
  /\ pc' = [pc EXCEPT ![p] = "find_by_sso"]
  /\ user_info' = [user_info EXCEPT ![p] = info]
  /\ fresh' = [fresh EXCEPT ![p] = Unmatched(users, info)]
  /\ UNCHANGED <<users, username, user, response, found>>

\* The request is answered; the handler is free for the next one
End(p) ==
  /\ pc[p] = "done"
  /\ pc' = [pc EXCEPT ![p] = "idle"]
  /\ user_info' = [user_info EXCEPT ![p] = NoInfo]
  /\ username' = [username EXCEPT ![p] = NoUsername]
  /\ user' = [user EXCEPT ![p] = NoUser]
  /\ response' = [response EXCEPT ![p] = NoResponse]
  /\ found' = [found EXCEPT ![p] = NoFound]
  /\ fresh' = [fresh EXCEPT ![p] = FALSE]
  /\ UNCHANGED users

sso_authenticate(p, info) == Begin(p, info) /\ UNCHANGED <<client, ops>>

Finish(p) == End(p) /\ UNCHANGED <<client, ops>>

\* (mutant) the exact match does not return
AfterSsoLookup_noReturn(u, info) ==
  IF info.email # NoEmail THEN "find_by_email" ELSE "generate"

\* (mutant) the lookup by email runs for the blank email too
AfterSsoLookup_emailAlways(u, info) ==
  IF u # NoUser THEN "done" ELSE "find_by_email"

\* Where find_or_create_user goes after the lookup by (provider, subject id)
\* returned u: `if user: return user`, else `if user_info.email:`
AfterSsoLookup(u, info) ==
  IF u # NoUser THEN "done"
  ELSE IF info.email # NoEmail THEN "find_by_email" ELSE "generate"

\* find_or_create_user, step 1: look up by (sso_provider, sso_id)
FindBySso(p) ==
  /\ pc[p] = "find_by_sso"
  /\ LET u == FilterBySso(users, user_info[p].provider, user_info[p].sso_id)
     IN /\ found' = [found EXCEPT ![p].sso = u]
        /\ IF AfterSsoLookup(u, user_info[p]) = "done"
             THEN /\ Respond(p, 200, u, "exact")
                  /\ user' = [user EXCEPT ![p] = u]
             ELSE /\ pc' = [pc EXCEPT ![p] = AfterSsoLookup(u, user_info[p])]
                  /\ UNCHANGED <<response, user>>
  /\ UNCHANGED <<users, user_info, username, fresh, client>>

\* (mutant) the account found by email is ignored
AfterEmailLookup_ignored(u) == "generate"

\* Where find_or_create_user goes after the lookup by email returned u
AfterEmailLookup(u) == IF u # NoUser THEN "link" ELSE "generate"

\* find_or_create_user, step 2: look up by email
FindByEmail(p) ==
  /\ pc[p] = "find_by_email"
  /\ LET u == FilterByEmail(users, user_info[p].email)
     IN /\ found' = [found EXCEPT ![p].email = u]
        /\ user' = [user EXCEPT ![p] = u]
        /\ pc' = [pc EXCEPT ![p] = AfterEmailLookup(u)]
  /\ UNCHANGED <<users, user_info, username, response, fresh, client>>

\* (mutant) the link leaves an existing binding in place
LinkedRow_keepsOld(row, info) ==
  IF row.sso_id # NullId THEN row
  ELSE [row EXCEPT !.sso_provider = info.provider, !.sso_id = info.sso_id]

\* (mutant) the link also stores the names of the assertion
LinkedRow_takesNames(row, info) ==
  [row EXCEPT !.sso_provider = info.provider, !.sso_id = info.sso_id,
              !.first_name = info.first_name, !.last_name = info.last_name]

\* The row after user.save(update_fields=['sso_provider', 'sso_id'])
LinkedRow(row, info) ==
  [row EXCEPT !.sso_provider = info.provider, !.sso_id = info.sso_id]

\* find_or_create_user, step 2: link the account found by email, one UPDATE
Link(p) ==
  /\ pc[p] = "link"
  /\ LET row == LinkedRow(users[user[p]], user_info[p])
     IN IF UniqueOk(users, row, user[p])
          THEN /\ users' = [users EXCEPT ![user[p]] = row]
               /\ fresh' = Stale(p)
               /\ Respond(p, 200, user[p], "link")
          ELSE /\ Respond(p, 500, NoUser, "link")
               /\ UNCHANGED <<users, fresh>>
  /\ UNCHANGED <<user_info, username, user, found, client>>

\* find_or_create_user, step 3: generate_username(user_info.email or 'user')
GenerateUsername(p, suffix) ==
  /\ pc[p] = "generate"
  /\ username' = [username EXCEPT ![p] =
                    generate_username(IF user_info[p].email # NoEmail
                                        THEN Address(user_info[p].email)
                                        ELSE UserPrefix,
                                      Draws(suffix))]
  /\ pc' = [pc EXCEPT ![p] = "check_username"]
  /\ UNCHANGED <<users, user_info, user, response, found, fresh, client>>

\* find_or_create_user, step 3: while User.objects.filter(username=...).exists()
CheckUsername(p) ==
  /\ pc[p] = "check_username"
  /\ IF UsernameExists(users, username[p])
       THEN /\ pc' = [pc EXCEPT ![p] = "generate"]
            /\ username' = [username EXCEPT ![p] = NoUsername]
       ELSE /\ pc' = [pc EXCEPT ![p] = "create"]
            /\ UNCHANGED username
  /\ UNCHANGED <<users, user_info, user, response, found, fresh, client>>

\* find_or_create_user, step 3: User.objects.create(...), one INSERT
Create(p) ==
  /\ pc[p] = "create"
  /\ LET row == NewUser(user_info[p], username[p])
     IN IF UniqueOk(users, row, 0)
          THEN /\ users' = Append(users, row)
               /\ user' = [user EXCEPT ![p] = Len(users) + 1]
               /\ pc' = [pc EXCEPT ![p] = "save"]
               /\ fresh' = Stale(p)
               /\ UNCHANGED response
          ELSE /\ Respond(p, 500, NoUser, "create")
               /\ UNCHANGED <<users, user, fresh>>
  /\ UNCHANGED <<user_info, username, found, client>>

\* find_or_create_user, step 3: user.set_unusable_password(); user.save(),
\* one UPDATE of every column from the in-memory object
Save(p) ==
  /\ pc[p] = "save"
  /\ LET row == set_unusable_password(NewUser(user_info[p], username[p]))
     IN IF UniqueOk(users, row, user[p])
          THEN /\ users' = [users EXCEPT ![user[p]] = row]
               /\ fresh' = Stale(p)
               /\ Respond(p, 200, user[p], "create")
          ELSE /\ Respond(p, 500, NoUser, "save")
               /\ UNCHANGED <<users, fresh>>
  /\ UNCHANGED <<user_info, username, user, found, client>>

\* One step of find_or_create_user in handler p
Step(p) ==
  \/ FindBySso(p)
  \/ FindByEmail(p)
  \/ Link(p)
  \/ \E s \in Suffixes : GenerateUsername(p, s)
  \/ CheckUsername(p)
  \/ Create(p)
  \/ Save(p)

(* ---- concurrent requests ---- *)

Next ==
  \/ \E p \in Procs, info \in BareInfo : sso_authenticate(p, info)
  \/ \E p \in Procs : Step(p) /\ UNCHANGED ops
  \/ \E p \in Procs : Finish(p)

Spec == Init /\ [][Next]_vars

(* ---- one client, one request at a time ---- *)

Client == "r1"

\* The client's first request of a sequence
FirstCall(info) ==
  /\ Begin(Client, info)
  /\ before' = users
  /\ callNo' = 1
  /\ UNCHANGED <<first, request, settings, call, profiles, onboarding, ops,
                 later>>

\* The client sends the same request again right after the answer
Repeat ==
  /\ pc[Client] = "done"
  /\ callNo = 1
  /\ pc' = [pc EXCEPT ![Client] = "find_by_sso"]
  /\ callNo' = 2
  /\ first' = [status |-> response[Client].status,
               user |-> response[Client].user,
               path |-> response[Client].path,
               table |-> users,
               info |-> user_info[Client]]
  /\ response' = [response EXCEPT ![Client] = NoResponse]
  /\ username' = [username EXCEPT ![Client] = NoUsername]
  /\ user' = [user EXCEPT ![Client] = NoUser]
  /\ found' = [found EXCEPT ![Client] = NoFound]
  /\ UNCHANGED <<users, user_info, fresh, before, request, settings, call,
                 profiles, onboarding, ops,
                 later>>

\* The sequence is over
Forget ==
  /\ End(Client)
  /\ before' = <<>>
  /\ callNo' = 0
  /\ first' = NoFirst
  /\ UNCHANGED <<request, settings, call, profiles, onboarding, ops,
                 later>>

SeqNext ==
  \/ \E info \in SSOUserInfo : FirstCall(info)
  \/ Step(Client) /\ UNCHANGED ops
  \/ Repeat
  \/ Forget

SeqSpec == Init /\ [][SeqNext]_vars

(* ---- one client, two different assertions one after the other ---- *)

\* The client's next request carries an assertion of another identity
Another(info) ==
  /\ pc[Client] = "done"
  /\ callNo = 1
  /\ <<info.provider, info.sso_id>> #
       <<user_info[Client].provider, user_info[Client].sso_id>>
  /\ pc' = [pc EXCEPT ![Client] = "find_by_sso"]
  /\ callNo' = 2
  /\ first' = [status |-> response[Client].status,
               user |-> response[Client].user,
               path |-> response[Client].path,
               table |-> users,
               info |-> user_info[Client]]
  /\ user_info' = [user_info EXCEPT ![Client] = info]
  /\ fresh' = [fresh EXCEPT ![Client] = Unmatched(users, info)]
  /\ response' = [response EXCEPT ![Client] = NoResponse]
  /\ username' = [username EXCEPT ![Client] = NoUsername]
  /\ user' = [user EXCEPT ![Client] = NoUser]
  /\ found' = [found EXCEPT ![Client] = NoFound]
  /\ UNCHANGED <<users, before, request, settings, call, profiles,
                 onboarding, ops,
                 later>>

PairNext ==
  \/ \E info \in BareInfo : FirstCall(info)
  \/ Step(Client) /\ UNCHANGED ops
  \/ \E info \in BareInfo : Another(info)
  \/ Forget

PairSpec == Init /\ [][PairNext]_vars

(* ---- the whole request: validation, token verification, resolution ---- *)

MaxChecks == 3        \* username existence checks are counted up to MaxChecks
MaxAccounts == 2      \* requests arrive while the table has fewer accounts

Flaws == {"signature", "issuer", "audience", "expired"}

\* An ID token as the identity provider (or somebody else) made it
Jwts ==
  [sub : SubjectIds, email : Emails, given_name : Names, family_name : Names,
   flaw : {"none"} \cup Flaws]

\* the remaining keys of request.data; 0 is a missing key or the empty string
Bodies == [email : Emails, first_name : Names, last_name : Names]

\* Requests that carry a provider and a sound token (of the tokens and the
\* bodies, those that give both names or none)
SoundRequests ==
  [provider : Providers, id_token : {"jwt"},
   jwt : {j \in Jwts : j.flaw = "none" /\ j.family_name = j.given_name},
   body : {b \in Bodies : b.last_name = b.first_name},
   dev_mode : BOOLEAN]

\* Requests with a bad provider, without token, or with a flawed token
PoorRequests ==
  {r \in [provider : Providers \cup {Missing, "", "email"},
          id_token : {Missing, "", "jwt"},
          jwt : {j \in Jwts : j.given_name = NoName /\ j.family_name = NoName},
          body : {[email |-> NoEmail, first_name |-> NoName,
                   last_name |-> NoName]},
          dev_mode : BOOLEAN] :
     /\ r.id_token # "jwt" => r.jwt.flaw = "none" /\ r.jwt.sub = 1
                              /\ r.jwt.email = NoEmail
     /\ \/ r.provider \notin Providers
        \/ r.id_token # "jwt"
        \/ r.jwt.flaw # "none"}

Requests == SoundRequests \cup PoorRequests

\* (mutant) only a missing key counts as not given
Truthy_emptyToo(value) == value # Missing

\* `not value` is false: the key is there and its string is not empty
Truthy(value) == value # Missing /\ value # ""

Settings == [DEBUG : BOOLEAN, GOOGLE_CLIENT_ID : {"", "hearsay-client-id"}]

TokenVerificationError == "TokenVerificationError"

Raise(e) == [error |-> e, info |-> NoInfo]

Return(info) == [error |-> "none", info |-> info]

\* (mutant) the decoded token is not checked
verify_apple_token_unchecked(jwt, net) ==
  IF net = "down" THEN Raise(TokenVerificationError)
  ELSE Return([provider |-> "apple", sso_id |-> jwt.sub, email |-> jwt.email,
               first_name |-> NoName, last_name |-> NoName])

\* verify_apple_token: fetch Apple's keys, then jwt.decode with audience and
\* issuer; Apple's payload gives no names
verify_apple_token(jwt, net) ==
  IF net = "down" THEN Raise(TokenVerificationError)
  ELSE IF jwt.flaw # "none" THEN Raise(TokenVerificationError)
  ELSE Return([provider |-> "apple", sso_id |-> jwt.sub, email |-> jwt.email,
               first_name |-> NoName, last_name |-> NoName])

\* verify_google_token: Google's tokeninfo endpoint checks signature and
\* expiry; the audience is compared only when GOOGLE_CLIENT_ID is set
verify_google_token(jwt, net, conf) ==
  IF net = "down" THEN Raise(TokenVerificationError)
  ELSE IF jwt.flaw \in {"signature", "expired"}
    THEN Raise(TokenVerificationError)
  ELSE IF conf.GOOGLE_CLIENT_ID # "" /\ jwt.flaw = "audience"
    THEN Raise(TokenVerificationError)
  ELSE IF jwt.flaw = "issuer" THEN Raise(TokenVerificationError)
  ELSE Return([provider |-> "google", sso_id |-> jwt.sub, email |-> jwt.email,
               first_name |-> jwt.given_name, last_name |-> jwt.family_name])

verify_sso_token(provider, jwt, net, conf) ==
  IF provider = "apple" THEN verify_apple_token(jwt, net)
  ELSE IF provider = "google" THEN verify_google_token(jwt, net, conf)
  ELSE Raise("ValueError")

\* 'dev_' + id_token[:20], 'dev@example.com', 'Dev', 'User'
DevId(jwt) == MaxSubjects + jwt.sub
DevEmail == MaxEmails + 1
DevFirstName == MaxNames + 1
DevLastName == MaxNames + 2

verify_sso_token_dev(provider, jwt, email, conf) ==
  IF ~conf.DEBUG THEN Raise(TokenVerificationError)
  ELSE Return([provider |-> provider, sso_id |-> DevId(jwt),
               email |-> IF email # NoEmail THEN email ELSE DevEmail,
               first_name |-> DevFirstName, last_name |-> DevLastName])

\* (mutant) the body's email is used whenever the body has one
Override_bodyFirst(info, body) ==
  [info EXCEPT
     !.first_name = IF body.first_name # NoName THEN body.first_name ELSE @,
     !.last_name = IF body.last_name # NoName THEN body.last_name ELSE @,
     !.email = IF body.email # NoEmail THEN body.email ELSE @]

\* the names of the body replace the verified ones; the body's email is used
\* when the verified assertion has none
Override(info, body) ==
  [info EXCEPT
     !.first_name = IF body.first_name # NoName THEN body.first_name ELSE @,
     !.last_name = IF body.last_name # NoName THEN body.last_name ELSE @,
     !.email = IF body.email # NoEmail /\ @ = NoEmail THEN body.email ELSE @]

\* sso_authenticate from the request to its call of find_or_create_user
\* (mutant) the request's flag alone selects the development verifier
UseDev_flagOnly(conf, dev_mode) == dev_mode

\* `if settings.DEBUG and request.data.get('dev_mode')`
UseDev(conf, dev_mode) == conf.DEBUG /\ dev_mode

Authenticate(req, net) ==
  LET dev == UseDev(settings, req.dev_mode)
      Verify(r) ==
        IF dev
          THEN verify_sso_token_dev(r.provider, r.jwt, r.body.email, settings)
          ELSE verify_sso_token(r.provider, r.jwt, net, settings)
      v == Verify(req)
      info == Override(v.info, req.body)
      Sibling(e) == [req EXCEPT !.body.email = e]
  IN
  /\ pc[Client] = "idle"
  /\ Len(users) < MaxAccounts
  /\ request' =
       [provider |-> req.provider, id_token |-> req.id_token,
        flaw |-> req.jwt.flaw, dev_mode |-> req.dev_mode, net |-> net,
        token_email |-> req.jwt.email,
        verifier |-> IF ~Truthy(req.provider)
                        \/ req.provider \notin {"apple", "google"}
                        \/ ~Truthy(req.id_token) THEN "none"
                     ELSE IF dev THEN "verify_sso_token_dev"
                     ELSE "verify_sso_token",
        siblings |->
          {[error |-> Verify(Sibling(e)).error,
            info |-> IF Verify(Sibling(e)).error = "none"
                       THEN Override(Verify(Sibling(e)).info, Sibling(e).body)
                       ELSE NoInfo] : e \in Emails}]
  /\ before' = users
  /\ callNo' = 1
  /\ UNCHANGED <<users, username, user, found, first, settings, call,
                 profiles, onboarding,
                 later>>
  /\ IF ~Truthy(req.provider) \/ req.provider \notin {"apple", "google"}
       THEN /\ Respond(Client, 400, NoUser, "provider")
            /\ ops' = NoOps
            /\ UNCHANGED <<user_info, fresh>>
     ELSE IF ~Truthy(req.id_token)
       THEN /\ Respond(Client, 400, NoUser, "id_token")
            /\ ops' = NoOps
            /\ UNCHANGED <<user_info, fresh>>
     ELSE /\ ops' = [NoOps EXCEPT !.verifier = 1]
          /\ IF v.error = TokenVerificationError
               THEN /\ Respond(Client, 401, NoUser, "verify")
                    /\ UNCHANGED <<user_info, fresh>>
             ELSE IF v.error # "none"
               THEN /\ Respond(Client, 500, NoUser, "verify")
                    /\ UNCHANGED <<user_info, fresh>>
             ELSE /\ pc' = [pc EXCEPT ![Client] = "find_by_sso"]
                  /\ user_info' = [user_info EXCEPT ![Client] = info]
                  /\ fresh' = [fresh EXCEPT ![Client] = Unmatched(users, info)]
                  /\ UNCHANGED response

Count(op) == ops' = [ops EXCEPT ![op] = @ + 1]

\* the candidate username is drawn with suffix number s
Draw(s) == GenerateUsername(Client, s) /\ UNCHANGED ops

\* the loop condition is evaluated
Check ==
  /\ CheckUsername(Client)
  /\ ops' = [ops EXCEPT !.checks = IF @ < MaxChecks THEN @ + 1 ELSE @]

\* find_or_create_user, with every ORM call counted
Resolve ==
  \/ FindBySso(Client) /\ Count("lookups")
  \/ FindByEmail(Client) /\ Count("lookups")
  \/ Link(Client) /\ Count("writes")
  \/ \E s \in Suffixes : Draw(s)
  \/ Check
  \/ Create(Client) /\ Count("writes")
  \/ Save(Client) /\ Count("writes")

\* The response is sent
Answered ==
  /\ End(Client)
  /\ before' = <<>>
  /\ callNo' = 0
  /\ request' = NoRequest
  /\ ops' = NoOps
  /\ UNCHANGED <<first, settings, call, profiles, onboarding,
                 later>>

AuthInit ==
  /\ users = <<>>
  /\ Idle
  /\ settings \in Settings
  /\ call = NoCall

AuthNext ==
  \/ /\ pc[Client] = "idle"
     /\ \E req \in Requests, net \in {"up", "down"} : Authenticate(req, net)
  \/ Resolve
  \/ Answered

AuthSpec == AuthInit /\ [][AuthNext]_vars

(* ---- the resolver alone, its loop scheduled fairly ---- *)

LoopNext ==
  \/ \E info \in BareInfo : FirstCall(info)
  \/ Resolve
  \/ Answered

\* the handler's thread keeps running and the random choice is fair: every
\* suffix that can be drawn again and again is drawn
LoopSpec ==
  /\ Init
  /\ [][LoopNext]_vars
  /\ WF_vars(Check)
  /\ \A s \in Suffixes : SF_vars(Draw(s))

(* ---- onboarding (onboarding/views.py) ---- *)

MaxScore == 7         \* integer quiz scores -2..MaxScore

\* (mutant) the comparisons are strict
calculate_proficiency_strict(quiz_score) ==
  IF quiz_score < 1 THEN "beginner"
  ELSE IF quiz_score < 3 THEN "elementary"
  ELSE IF quiz_score = 4 THEN "intermediate"
  ELSE "upper_intermediate"

\* calculate_proficiency(quiz_score)
calculate_proficiency(quiz_score) ==
  IF quiz_score <= 1 THEN "beginner"
  ELSE IF quiz_score <= 3 THEN "elementary"
  ELSE IF quiz_score = 4 THEN "intermediate"
  ELSE "upper_intermediate"

\* isinstance(value, int): Python's bool is a subclass of int
IsInt(value) == value.type \in {"int", "bool"}

\* (mutant) every value passes for a list
IsList_any(value) == TRUE

\* isinstance(value, list)
IsList(value) == value.type = "list"

\* request.data.get(key, default)
Get(value, default) == IF value = Absent THEN default ELSE value

QuizScores ==
  {IntVal(n) : n \in -2..MaxScore}
    \cup {BoolVal(0), BoolVal(1), FloatVal(2), StrVal(3), Null, Absent}

\* A sound body, and the bodies that differ from it in one key
SoundData ==
  [target_language |-> "es", quiz_score |-> IntVal(3), goals |-> ListVal(1),
   sessions_per_week |-> IntVal(5)]

OnboardingData ==
  {[SoundData EXCEPT !.target_language = l] :
     l \in {"es", "fr", "de", "", Missing}}
    \cup {[SoundData EXCEPT !.quiz_score = q, !.target_language = l] :
            q \in QuizScores, l \in {"es", "fr"}}
    \cup {[SoundData EXCEPT !.goals = g] :
            g \in {ListVal(0), StrVal(1), Null, Absent}}
    \cup {[SoundData EXCEPT !.sessions_per_week = n] :
            n \in {IntVal(0), IntVal(7), IntVal(8), StrVal(5), Absent}}

\* The account set_unusable_password and save leave for a first assertion
Provisioned(info, s) ==
  set_unusable_password(
    NewUser(info, generate_username(Address(info.email), Draws(s))))

\* Tables with one and with two provisioned accounts
SomeTables ==
  LET one == Provisioned([provider |-> "apple", sso_id |-> 1, email |-> 1,
                          first_name |-> NoName, last_name |-> NoName], 1)
      two == Provisioned([provider |-> "google", sso_id |-> 2, email |-> 2,
                          first_name |-> NoName, last_name |-> NoName], 2)
  IN {<<one>>, <<one, two>>}

\* UserProfile rows of account u
ProfilesOf(ps, u) == {i \in 1..Len(ps) : ps[i].user = u}

\* complete_onboarding up to its first ORM call: request.user is the account
\* the authentication loaded; validation; calculate_proficiency
Post(p, u, data) ==
  LET target_language == data.target_language
      quiz_score == Get(data.quiz_score, IntVal(0))
      goals == Get(data.goals, ListVal(0))
      given == Get(data.sessions_per_week, IntVal(3))
      sessions_per_week ==
        IF ~IsInt(given) \/ given.val < 1 \/ given.val > 7 THEN IntVal(3)
        ELSE given
      refuse == onboarding' =
                  [onboarding EXCEPT ![p] =
                     [pc |-> "done", user |-> u, data |-> data,
                      proficiency_level |-> "", status |-> 400]]
  IN
  /\ onboarding[p].pc = "idle"
  /\ u \in 1..Len(users)
  /\ IF users[u].onboarding_completed THEN refuse
     ELSE IF ~Truthy(target_language) \/ target_language \notin {"es", "fr"}
       THEN refuse
     ELSE IF ~IsInt(quiz_score) \/ quiz_score.val < 0 \/ quiz_score.val > 5
       THEN refuse
     ELSE IF ~IsList(goals) THEN refuse
     ELSE onboarding' =
            [onboarding EXCEPT ![p] =
               [pc |-> "update_or_create", user |-> u, data |-> data,
                proficiency_level |-> calculate_proficiency(quiz_score.val),
                status |-> 0]]
  /\ UNCHANGED <<users, pc, user_info, username, user, response, found,
                 fresh, before, callNo, first, request, settings, ops, call,
                 profiles,
                 later>>

\* UserProfile.objects.update_or_create(user=user, defaults={...})
UpdateOrCreate(p) ==
  LET o == onboarding[p]
      given == Get(o.data.sessions_per_week, IntVal(3))
      defaults == [target_language |-> o.data.target_language,
                   proficiency_level |-> o.proficiency_level,
                   goals |-> Get(o.data.goals, ListVal(0)),
                   sessions_per_week |->
                     IF ~IsInt(given) \/ given.val < 1 \/ given.val > 7
                       THEN IntVal(3) ELSE given]
      \* the defaults laid over a row; the counters of a new row are 0
      Over(r) == [k \in DOMAIN r |->
                   IF k \in DOMAIN defaults THEN defaults[k] ELSE r[k]]
      created == Over([user |-> o.user, target_language |-> "",
                       proficiency_level |-> "beginner", goals |-> ListVal(0),
                       sessions_per_week |-> IntVal(3),
                       total_lessons_completed |-> 0,
                       total_practice_minutes |-> 0])
      old == ProfilesOf(profiles, o.user)
  IN
  /\ o.pc = "update_or_create"
  /\ profiles' = IF old = {} THEN Append(profiles, created)
                 ELSE [i \in 1..Len(profiles) |->
                         IF i \in old THEN Over(profiles[i]) ELSE profiles[i]]
  /\ onboarding' = [onboarding EXCEPT ![p].pc = "save"]
  /\ UNCHANGED <<users, pc, user_info, username, user, response, found,
                 fresh, before, callNo, first, request, settings, ops, call,
                 later>>

\* user.onboarding_completed = True; user.save(update_fields=[...])
SaveCompleted(p) ==
  /\ onboarding[p].pc = "save"
  /\ users' = [users EXCEPT ![onboarding[p].user].onboarding_completed = TRUE]
  /\ onboarding' = [onboarding EXCEPT ![p].pc = "done", ![p].status = 200]
  /\ UNCHANGED <<pc, user_info, username, user, response, found, fresh,
                 before, callNo, first, request, settings, ops, call, profiles,
                 later>>

\* The response is sent; the handler is free for the next request
Reply(p) ==
  /\ onboarding[p].pc = "done"
  /\ onboarding' = [onboarding EXCEPT ![p] = NoOnboarding]
  /\ UNCHANGED <<users, pc, user_info, username, user, response, found,
                 fresh, before, callNo, first, request, settings, ops, call,
                 profiles,
                 later>>

complete_onboarding(p) ==
  \/ \E u \in 1..MaxAccounts, data \in OnboardingData : Post(p, u, data)
  \/ UpdateOrCreate(p)
  \/ SaveCompleted(p)
  \/ Reply(p)

OnboardInit ==
  /\ users \in SomeTables
  /\ Idle
  /\ settings = DefaultSettings
  /\ call = NoCall

\* one request at a time
OnboardNext == complete_onboarding(Client)

OnboardSpec == OnboardInit /\ [][OnboardNext]_vars

(* ---- sign-in and onboarding together, requests overlapping ---- *)

\* Two assertions of one person: the second links the account of the first
ApiInfo ==
  {[provider |-> "apple", sso_id |-> 1, email |-> 1,
    first_name |-> NoName, last_name |-> NoName],
   [provider |-> "google", sso_id |-> 2, email |-> 1,
    first_name |-> NoName, last_name |-> NoName]}

\* Two sound bodies that differ in the language and in the level
PairData ==
  {SoundData,
   [SoundData EXCEPT !.target_language = "fr", !.quiz_score = IntVal(5)]}

\* sso_authenticate's answer reaches the client: with a 200 the client holds
\* the tokens of RefreshToken.for_user(user)
Deliver(p) ==
  /\ End(p)
  /\ issued' = IF response[p].status = 200
                THEN issued \cup {response[p].user} ELSE issued
  /\ UNCHANGED <<before, callNo, first, request, settings, ops, call,
                 profiles, onboarding, attempts, lesson, blacklist, answer>>

\* complete_onboarding of a client that holds the tokens of account u
\* (IsAuthenticated), with a body of PairData
Onboard(p) ==
  \/ \E u \in issued, data \in PairData : Post(p, u, data)
  \/ UpdateOrCreate(p)
  \/ SaveCompleted(p)
  \/ Reply(p)

ApiNext ==
  \/ \E p \in Procs, info \in ApiInfo : sso_authenticate(p, info)
  \/ \E p \in Procs : Step(p) /\ UNCHANGED ops
  \/ \E p \in Procs : Deliver(p)
  \/ \E p \in Procs : Onboard(p)

ApiSpec == Init /\ [][ApiNext]_vars

(* ---- lesson attempts (lessons/views.py) ---- *)

MaxAttempts == 3      \* rows of the Attempt table

\* The Lesson table: lesson 1 is active, lesson 2 is not, there is no lesson 3
Lessons == <<[is_active |-> TRUE], [is_active |-> FALSE]>>
LessonIds == 1..3

\* (mutant) the lookup leaves is_active out
GetLesson_inactiveToo(lesson_id) == lesson_id \in DOMAIN Lessons

\* Lesson.objects.get(id=lesson_id, is_active=True) finds a row
GetLesson(lesson_id) ==
  lesson_id \in DOMAIN Lessons /\ Lessons[lesson_id].is_active

\* a JSON string that is the numeral of n
NumStr(n) == [type |-> "numstr", val |-> n]

\* The serializer field of duration_seconds (PositiveIntegerField, null=True,
\* blank=True): a missing key and null give None, an integer or a numeral
\* of 0 or more gives the integer, anything else is an error
IntegerField(value) ==
  IF value.type \in {"missing", "null"} THEN [ok |-> TRUE, value |-> Null]
  ELSE IF value.type \in {"int", "numstr"} /\ value.val >= 0
    THEN [ok |-> TRUE, value |-> IntVal(value.val)]
  ELSE [ok |-> FALSE, value |-> Null]

\* The bodies of a POST: duration_seconds as the client sent it
AttemptData ==
  {IntVal(0), IntVal(59), IntVal(60), IntVal(125), NumStr(120), IntVal(-1),
   StrVal(1), BoolVal(1), Null, Absent}

\* `if attempt.duration_seconds:` and `attempt.duration_seconds // 60`
Minutes(duration_seconds) ==
  IF duration_seconds.type = "int" /\ duration_seconds.val # 0
    THEN duration_seconds.val \div 60 ELSE 0

\* the handlers that are about to insert an attempt
Inserting == {q \in Procs : lesson[q].pc = "insert"}

\* lesson_attempts up to its first write: the lesson lookup, the method, the
\* serializer's is_valid()
LessonRequest(p, u, method, lesson_id, data) ==
  LET field == IntegerField(data)
      to(stage, status) ==
        lesson' = [lesson EXCEPT ![p] =
                     [pc |-> stage, user |-> u, method |-> method,
                      lesson_id |-> lesson_id, data |-> data, attempt |-> 0,
                      profile |-> NoProfile, status |-> status]]
  IN
  /\ lesson[p].pc = "idle"
  /\ Len(attempts) + Cardinality(Inserting) < MaxAttempts
  /\ IF ~GetLesson(lesson_id) THEN to("done", 404)
     ELSE IF method = "GET" THEN to("done", 200)
     ELSE IF ~field.ok THEN to("done", 400)
     ELSE to("insert", 0)
  /\ UNCHANGED <<users, pc, user_info, username, user, response, found,
                 fresh, before, callNo, first, request, settings, ops, call,
                 profiles, onboarding, attempts, issued, blacklist, answer>>

\* serializer.save(user=request.user, lesson=lesson, completed_at=...)
InsertAttempt(p) ==
  /\ lesson[p].pc = "insert"
  /\ attempts' = Append(attempts,
                        [user |-> lesson[p].user,
                         lesson |-> lesson[p].lesson_id,
                         duration_seconds |->
                           IntegerField(lesson[p].data).value])
  /\ lesson' = [lesson EXCEPT ![p].pc = "profile",
                              ![p].attempt = Len(attempts) + 1]
  /\ UNCHANGED <<users, pc, user_info, username, user, response, found,
                 fresh, before, callNo, first, request, settings, ops, call,
                 profiles, onboarding, issued, blacklist, answer>>

\* hasattr(request.user, 'profile') loads the profile row, if there is one
ReadProfile(p) ==
  LET own == ProfilesOf(profiles, lesson[p].user)
  IN
  /\ lesson[p].pc = "profile"
  /\ lesson' =
       IF own = {}
         THEN [lesson EXCEPT ![p].pc = "done", ![p].status = 201]
         ELSE [lesson EXCEPT ![p].pc = "save",
                             ![p].profile = profiles[CHOOSE i \in own : TRUE]]
  /\ UNCHANGED <<users, pc, user_info, username, user, response, found,
                 fresh, before, callNo, first, request, settings, ops, call,
                 profiles, onboarding, attempts, issued, blacklist, answer>>

\* The row profile.save() writes: every column from the object in memory,
\* its two counters raised
Saved(memory, duration_seconds) ==
  [memory EXCEPT
     !.total_lessons_completed = @ + 1,
     !.total_practice_minutes = @ + Minutes(duration_seconds)]

\* profile.total_lessons_completed += 1; ...; profile.save()
SaveProfile(p) ==
  LET own == ProfilesOf(profiles, lesson[p].user)
  IN
  /\ lesson[p].pc = "save"
  /\ profiles' =
       [i \in 1..Len(profiles) |->
          IF i \in own
            THEN Saved(lesson[p].profile,
                       attempts[lesson[p].attempt].duration_seconds)
            ELSE profiles[i]]
  /\ lesson' = [lesson EXCEPT ![p].pc = "done", ![p].status = 201]
  /\ UNCHANGED <<users, pc, user_info, username, user, response, found,
                 fresh, before, callNo, first, request, settings, ops, call,
                 onboarding, attempts, issued, blacklist, answer>>

\* The response is sent; the handler is free for the next request
LessonReply(p) ==
  /\ lesson[p].pc = "done"
  /\ lesson' = [lesson EXCEPT ![p] = NoLesson]
  /\ UNCHANGED <<users, pc, user_info, username, user, response, found,
                 fresh, before, callNo, first, request, settings, ops, call,
                 profiles, onboarding, attempts, issued, blacklist, answer>>

lesson_attempts(p) ==
  \/ \E u \in issued, method \in {"GET", "POST"}, lesson_id \in LessonIds,
        data \in AttemptData : LessonRequest(p, u, method, lesson_id, data)
  \/ InsertAttempt(p)
  \/ ReadProfile(p)
  \/ SaveProfile(p)
  \/ LessonReply(p)

\* Two accounts with tokens; the first has completed onboarding and has the
\* profile update_or_create made, the second has no profile
LessonInit ==
  /\ \E t \in SomeTables :
       /\ Len(t) = 2
       /\ users = [t EXCEPT ![1].onboarding_completed = TRUE]
  /\ IdleHandlers
  /\ profiles = <<[user |-> 1, target_language |-> "es",
                   proficiency_level |-> "elementary", goals |-> ListVal(1),
                   sessions_per_week |-> IntVal(5),
                   total_lessons_completed |-> 0,
                   total_practice_minutes |-> 0]>>
  /\ issued = {1, 2}
  /\ settings = DefaultSettings
  /\ call = NoCall

\* Three of the bodies: under a minute, two minutes and more, refused
FewData == {IntVal(59), IntVal(125), IntVal(-1)}

\* lesson_attempts with a body of FewData
FewAttempts(p) ==
  \/ \E u \in issued, method \in {"GET", "POST"}, lesson_id \in LessonIds,
        data \in FewData : LessonRequest(p, u, method, lesson_id, data)
  \/ InsertAttempt(p)
  \/ ReadProfile(p)
  \/ SaveProfile(p)
  \/ LessonReply(p)

\* requests of the same and of different users overlap
LessonNext == \E p \in Procs : FewAttempts(p)

LessonSpec == LessonInit /\ [][LessonNext]_vars

\* one request at a time
LessonSeqNext == lesson_attempts(Client)

LessonSeqSpec == LessonInit /\ [][LessonSeqNext]_vars

(* ---- the account endpoints: me/update/, auth/logout/, token/refresh/ ---- *)

\* config/settings.py, INSTALLED_APPS
INSTALLED_APPS ==
  {"django.contrib.admin", "django.contrib.auth",
   "django.contrib.contenttypes", "django.contrib.sessions",
   "django.contrib.messages", "django.contrib.staticfiles",
   "rest_framework", "rest_framework_simplejwt", "corsheaders",
   "users.apps.UsersConfig", "core.apps.CoreConfig",
   "onboarding.apps.OnboardingConfig", "lessons.apps.LessonsConfig"}

\* RefreshToken has blacklist() and checks the blacklist only when the
\* token_blacklist app is installed
BlacklistInstalled ==
  "rest_framework_simplejwt.token_blacklist" \in INSTALLED_APPS

\* the refresh token RefreshToken.for_user(u) gave
TokenOf(u) == [type |-> "jwt", val |-> u]

\* The `refresh` key of a body: missing, empty, no token at all, or the
\* refresh token of an account
RefreshValues ==
  {Absent, [type |-> "str", val |-> 0], StrVal(1)}
    \cup {TokenOf(u) : u \in 1..MaxAccounts}

\* RefreshToken(refresh_token) accepts the string: it is a token issued
\* here and, with the blacklist app, not blacklisted
Accepted(refresh) ==
  /\ refresh.type = "jwt"
  /\ refresh.val \in issued
  /\ BlacklistInstalled => refresh \notin blacklist

\* logout of a client that holds the tokens of account u: the token is
\* blacklisted if RefreshToken takes it and has blacklist(); every exception
\* is swallowed and the answer is 200 in all cases
logout(u, refresh) ==
  LET present == refresh.type # "missing" /\ refresh # [type |-> "str", val |-> 0]
  IN
  /\ blacklist' = IF present /\ Accepted(refresh) /\ BlacklistInstalled
                   THEN blacklist \cup {refresh} ELSE blacklist
  /\ answer' = [op |-> "logout", user |-> u, body |-> refresh,
                status |-> 200,
                revoked |-> IF present /\ Accepted(refresh)
                              THEN answer.revoked \cup {refresh}
                              ELSE answer.revoked]
  /\ UNCHANGED <<users, pc, user_info, username, user, response, found,
                 fresh, before, callNo, first, request, settings, ops, call,
                 profiles, onboarding, attempts, lesson, issued>>

\* TokenRefreshView: new tokens for an accepted refresh token, 401 otherwise
\* (400 without the key); with BLACKLIST_AFTER_ROTATION the old token is
\* blacklisted if the app is installed
token_refresh(refresh) ==
  /\ blacklist' = IF Accepted(refresh) /\ BlacklistInstalled
                   THEN blacklist \cup {refresh} ELSE blacklist
  /\ answer' = [op |-> "refresh", user |-> NoUser, body |-> refresh,
                status |-> IF Accepted(refresh) THEN 200
                           ELSE IF refresh.type = "missing" THEN 400
                           ELSE 401,
                revoked |-> answer.revoked]
  /\ UNCHANGED <<users, pc, user_info, username, user, response, found,
                 fresh, before, callNo, first, request, settings, ops, call,
                 profiles, onboarding, attempts, lesson, issued>>

\* The values of first_name and last_name in a body: no key, null, the
\* empty string, a name
NameValues == {Absent, Null} \cup {StrVal(n) : n \in Names}

\* Bodies of PATCH me/update/, with keys the view does not allow
PatchBodies ==
  [first_name : NameValues, last_name : NameValues,
   email : {Absent, StrVal(MaxEmails)},
   sso_id : {Absent, StrVal(MaxSubjects)},
   onboarding_completed : {Absent, BoolVal(0)}]

\* (mutant) every key of the body that names a column is written
Patched_everyKey(row, body) ==
  [row EXCEPT
     !.first_name = IF body.first_name # Absent THEN body.first_name.val ELSE @,
     !.last_name = IF body.last_name # Absent THEN body.last_name.val ELSE @,
     !.email = IF body.email # Absent THEN body.email.val ELSE @]

\* setattr for the allowed fields that are in the body, and the
\* save(update_fields=[those]) of them
Patched(row, body) ==
  [row EXCEPT
     !.first_name = IF body.first_name # Absent THEN body.first_name.val ELSE @,
     !.last_name = IF body.last_name # Absent THEN body.last_name.val ELSE @]

\* update_current_user of a client that holds the tokens of account u; a
\* null name breaks the NOT NULL constraint of the column, the UPDATE fails
\* as a whole and the answer is 500
update_current_user(u, body) ==
  LET fails == body.first_name = Null \/ body.last_name = Null
  IN
  /\ users' = IF fails THEN users
               ELSE [users EXCEPT ![u] = Patched(@, body)]
  /\ answer' = [op |-> "update_current_user", user |-> u, body |-> body,
                status |-> IF fails THEN 500 ELSE 200,
                revoked |-> answer.revoked]
  /\ UNCHANGED <<pc, user_info, username, user, response, found, fresh,
                 before, callNo, first, request, settings, ops, call,
                 profiles, onboarding, attempts, lesson, issued, blacklist>>

\* Two accounts, the first with onboarding completed, both with tokens
AccountInit ==
  /\ \E t \in SomeTables :
       /\ Len(t) = 2
       /\ users = [t EXCEPT ![1].onboarding_completed = TRUE]
  /\ IdleHandlers
  /\ profiles = <<>>
  /\ issued = {1, 2}
  /\ settings = DefaultSettings
  /\ call = NoCall

AccountNext ==
  \/ \E u \in issued, body \in PatchBodies : update_current_user(u, body)
  \/ \E u \in issued, refresh \in RefreshValues : logout(u, refresh)
  \/ \E refresh \in RefreshValues : token_refresh(refresh)

AccountSpec == AccountInit /\ [][AccountNext]_vars

(* ---- generate_username on its own ---- *)

MaxLocal == 22        \* local parts of 0..MaxLocal characters

\* a local part of n characters: b c a b c a ...
Local(n) == [i \in 1..n |-> <<"a", "b", "c">>[(i % 3) + 1]]

\* what follows the local part: nothing, a domain, a domain with a second '@'
Tails == {<<>>, <<"@", "x">>, <<"@", "x", "@", "y">>}

TestEmails == {Local(n) \o t : n \in 0..MaxLocal, t \in Tails}

\* draws of a, z, 0 and 9
TestPicks == [1..SuffixLen -> {1, 26, 27, 36}]

UsernameInit ==
  /\ users = <<>>
  /\ Idle
  /\ settings = DefaultSettings
  /\ call \in [email : TestEmails, picks : TestPicks, result : {<<>>},
               at : {"called"}]

\* find_or_create_user's call: generate_username(user_info.email or 'user')
CallGenerate ==
  /\ call.at = "called"
  /\ call' = [call EXCEPT
                !.result = generate_username(IF call.email # <<>>
                                               THEN call.email
                                               ELSE UserPrefix,
                                             call.picks),
                !.at = "returned"]
  /\ UNCHANGED <<users, pc, user_info, username, user, response, found,
                 fresh, before, callNo, first, request, settings, ops,
                 profiles, onboarding,
                 later>>

UsernameNext == CallGenerate

UsernameSpec == UsernameInit /\ [][UsernameNext]_vars

(* ---- claims ---- *)

\* The accounts that carry the (provider, subject id) of an assertion
AccountsOf(us, info) ==
  {i \in 1..Len(us) :
     us[i].sso_provider = info.provider /\ us[i].sso_id = info.sso_id}

\* Two finished requests with the same assertion, both begun when no account
\* matched it, with no write of any other request in between
Raced(p, q) ==
  /\ p # q
  /\ pc[p] = "done" /\ pc[q] = "done"
  /\ user_info[p] = user_info[q]
  /\ fresh[p] /\ fresh[q]

\* C1: two concurrent find_or_create_user calls with the same assertion, begun
\* when no account matches it, leave exactly one account for that identity;
\* when both reach the insert, one of them is rejected.
C1_ExactlyOneAccount ==
  \A p, q \in Procs :
    Raced(p, q) =>
      /\ Cardinality(AccountsOf(users, user_info[p])) = 1
      /\ (response[p].path = "create" /\ response[q].path = "create"
            => {response[p].status, response[q].status} = {200, 500})

\* An account of another provider already uses the assertion's subject id
SubjectClash(us, info) ==
  \E i \in 1..Len(us) :
    us[i].sso_id = info.sso_id /\ us[i].sso_provider # info.provider

\* The assertion has no email and an account is already stored with the blank
\* email
BlankClash(us, info) ==
  info.email = NoEmail /\ \E i \in 1..Len(us) : us[i].email = NoEmail

\* C1, outside the subject-id clash of C3: the same statement for assertions
\* whose subject id no account of the other provider uses.
C1_ExceptSubjectClash ==
  \A p, q \in Procs :
    (Raced(p, q) /\ ~SubjectClash(users, user_info[p]))
    => /\ Cardinality(AccountsOf(users, user_info[p])) = 1
       /\ (response[p].path = "create" /\ response[q].path = "create"
             => {response[p].status, response[q].status} = {200, 500})

\* C2: no two accounts share an email, and no two accounts share a
\* (provider, subject id) pair when both are non-null.
C2_Unique ==
  \A i, j \in 1..Len(users) :
    i # j =>
      /\ users[i].email # users[j].email
      /\ (/\ users[i].sso_provider # NullProvider /\ users[i].sso_id # NullId
          /\ users[j].sso_provider # NullProvider /\ users[j].sso_id # NullId
          => <<users[i].sso_provider, users[i].sso_id>>
               # <<users[j].sso_provider, users[j].sso_id>>)

\* C2 witness: two accounts of the same provider are stored and a writer has
\* been rejected.
C2_Witness ==
  /\ Len(users) = 2
  /\ users[1].sso_provider = users[2].sso_provider
  /\ \E p \in Procs : pc[p] = "done" /\ response[p].status = 500

\* C3: an assertion that matches no account by (provider, subject id) and none
\* by email is provisioned: the call succeeds and adds exactly one account,
\* with a username no earlier account has and the assertion's (provider,
\* subject id).
C3_ProvisionsUnmatched ==
  LET info == user_info[Client]
      n == Len(before)
  IN (/\ callNo = 1 /\ pc[Client] = "done"
      /\ FilterBySso(before, info.provider, info.sso_id) = NoUser
      /\ FilterByEmail(before, info.email) = NoUser)
     => /\ response[Client].status = 200
        /\ Len(users) = n + 1
        /\ SubSeq(users, 1, n) = before
        /\ \A i \in 1..n : before[i].username # users[n + 1].username
        /\ users[n + 1].sso_provider = info.provider
        /\ users[n + 1].sso_id = info.sso_id

\* C3, outside the subject-id clash: the same statement for assertions whose
\* subject id no account uses.
C3_ExceptSubjectClash ==
  (callNo = 1 /\ pc[Client] = "done" /\ ~SubjectClash(before, user_info[Client]))
  => C3_ProvisionsUnmatched

\* C4: when an account has the assertion's (provider, subject id), the call
\* returns that account and leaves every field of every account as it was.
C4_ExactMatchReadOnly ==
  LET info == user_info[Client]
      m == FilterBySso(before, info.provider, info.sso_id)
  IN (callNo = 1 /\ pc[Client] = "done" /\ m # NoUser)
     => /\ users = before
        /\ response[Client] = [status |-> 200, user |-> m, path |-> "exact"]

\* C4 witness: an exact match whose assertion carries another email and
\* another first name than the account.
C4_Witness ==
  LET info == user_info[Client]
      m == FilterBySso(before, info.provider, info.sso_id)
  IN /\ callNo = 1 /\ pc[Client] = "done" /\ m # NoUser
     /\ before[m].email # info.email
     /\ before[m].first_name # info.first_name

\* C5: with no (provider, subject id) match and an account that has the
\* assertion's non-blank email, the call binds that account to the assertion's
\* provider and subject id and returns it; the same call again returns the
\* same account by the exact match and writes nothing.
C5_LinkThenExact ==
  LET info == user_info[Client]
      u == FilterByEmail(before, info.email)
  IN (/\ pc[Client] = "done"
      /\ FilterBySso(before, info.provider, info.sso_id) = NoUser
      /\ info.email # NoEmail
      /\ u # NoUser)
     => /\ callNo = 1 =>
             /\ response[Client] = [status |-> 200, user |-> u, path |-> "link"]
             /\ users = [before EXCEPT ![u] = LinkedRow(before[u], info)]
        /\ callNo = 2 =>
             /\ first.status = 200 /\ first.user = u
             /\ response[Client] = [status |-> 200, user |-> u, path |-> "exact"]
             /\ users = first.table

\* C5, outside the subject-id clash.
C5_ExceptSubjectClash ==
  (pc[Client] = "done" /\ ~SubjectClash(before, user_info[Client]))
  => C5_LinkThenExact

\* C6: two consecutive calls with one assertion return the same account both
\* times and together add at most one account.
C6_Idempotent ==
  (callNo = 2 /\ pc[Client] = "done")
  => /\ first.status = 200
     /\ response[Client].status = 200
     /\ response[Client].user = first.user
     /\ Len(users) <= Len(before) + 1

\* C6, outside the subject-id clash of C3 and the blank-email clash.
C6_ExceptClashes ==
  (/\ callNo = 2 /\ pc[Client] = "done"
   /\ ~SubjectClash(before, user_info[Client])
   /\ ~(BlankClash(before, user_info[Client])
        /\ FilterBySso(before, user_info[Client].provider,
                       user_info[Client].sso_id) = NoUser))
  => C6_Idempotent

\* C7: within a call the lookup by email runs only after the lookup by
\* (provider, subject id) found nothing, and the provisioning steps run only
\* after both lookups found nothing (the lookup by email is skipped for a
\* blank email).
C7_StrictOrder ==
  \A p \in Procs :
    LET provisioning ==
          \/ pc[p] \in {"generate", "check_username", "create", "save"}
          \/ pc[p] = "done" /\ response[p].path \in {"create", "save"}
    IN /\ pc[p] \in {"find_by_email", "link"} => found[p].sso = NoUser
       /\ pc[p] = "link" => found[p].email # NoUser
       /\ provisioning =>
            /\ found[p].sso = NoUser
            /\ found[p].email =
                 (IF user_info[p].email # NoEmail THEN NoUser ELSE -1)

\* C7 witness: an account was created after both lookups ran and found
\* nothing, while the table already held an account.
C7_Witness ==
  \E p \in Procs :
    /\ pc[p] = "done" /\ response[p].path = "create" /\ response[p].status = 200
    /\ found[p].email = NoUser
    /\ Len(users) = 2

\* The lookups of find_or_create_user would find an account for the assertion
Resolvable(us, info) ==
  \/ FilterBySso(us, info.provider, info.sso_id) # NoUser
  \/ info.email # NoEmail /\ FilterByEmail(us, info.email) # NoUser

\* C8: a request whose insert was rejected is not answered with a server error
\* while the lookups of a second run would find an account: the retry signs the
\* user in.
C8_ConflictRetried ==
  \A p \in Procs :
    ~(/\ pc[p] = "done"
      /\ response[p].path = "create" /\ response[p].status = 500
      /\ Resolvable(users, user_info[p]))

\* C9: the table never holds an account without the unusable-password marker.
C9_NoPartialAccount ==
  \A i \in 1..Len(users) : users[i].password = UnusablePassword

\* C10: an account returned from the provisioning path is stored with the
\* unusable-password marker and no password.
C10_UnusablePassword ==
  \A p \in Procs :
    (pc[p] = "done" /\ response[p].path = "create" /\ response[p].status = 200)
    => users[response[p].user].password = UnusablePassword

\* C10 witness: a request has returned a newly provisioned account.
C10_Witness ==
  \E p \in Procs :
    /\ pc[p] = "done" /\ response[p].path = "create" /\ response[p].status = 200
    /\ users[response[p].user].sso_id = user_info[p].sso_id

\* A username without its '_' and random suffix
LocalPart(name) == SubSeq(name, 1, Len(name) - (SuffixLen + 1))

\* C11: two assertions of different identities, both without email, resolved
\* one after the other on a table where neither matches, each get an account
\* of their own, with the blank email and a username whose local part is "user"
C11_BothProvisioned ==
  (/\ pc[Client] = "done"
   /\ callNo = 2
   /\ first.info.email = NoEmail
   /\ user_info[Client].email = NoEmail
   /\ Unmatched(before, first.info)
   /\ Unmatched(before, user_info[Client]))
  => /\ first.status = 200
     /\ response[Client].status = 200
     /\ first.user # response[Client].user
     /\ \A u \in {first.user, response[Client].user} :
          /\ u \in (Len(before) + 1)..Len(users)
          /\ users[u].email = NoEmail
          /\ LocalPart(users[u].username) = UserPrefix
     /\ users[first.user].sso_id = first.info.sso_id
     /\ users[response[Client].user].sso_id = user_info[Client].sso_id

\* apart from a subject id that another provider's account already holds,
\* the first of the two assertions is provisioned as C11 says
C11_FirstProvisioned ==
  (/\ callNo = 2
   /\ first.info.email = NoEmail
   /\ Unmatched(before, first.info)
   /\ ~SubjectClash(before, first.info))
  => /\ first.status = 200
     /\ first.user = Len(before) + 1
     /\ first.table[first.user].email = NoEmail
     /\ LocalPart(first.table[first.user].username) = UserPrefix

\* The request in progress is malformed: bad or missing provider, or no token
Malformed ==
  \/ request.provider \notin {"apple", "google"}
  \/ request.id_token \in {Missing, ""}

\* The request in progress went to the real verifier, not the development one
Verified == ~Malformed /\ ~(settings.DEBUG /\ request.dev_mode)

\* C12: a request whose provider is missing or not apple/google, or whose
\* id_token is missing or empty, is answered 400; the token verifier is not
\* called and the account table is as it was
C12_MalformedRejected ==
  (pc[Client] = "done" /\ Malformed)
  => /\ response[Client].status = 400
     /\ response[Client].user = NoUser
     /\ ops = NoOps
     /\ users = before

C12_Witness ==
  /\ pc[Client] = "done"
  /\ request.provider = "google"
  /\ request.id_token = ""
  /\ response[Client].status = 400
  /\ users # <<>>

\* The verifier in use checks the flaw the token has
Checked ==
  /\ request.flaw \in Flaws
  /\ ~(/\ request.provider = "google"
       /\ request.flaw = "audience"
       /\ settings.GOOGLE_CLIENT_ID = "")

C14_UnreachableIsServerError ==
  (pc[Client] = "done" /\ Verified /\ request.net = "down")
  => /\ response[Client].status \in 500..599
     /\ response[Client].status # 401
     /\ users = before

\* what the code does when the provider cannot be reached: the 401 of an
\* invalid token, with the table as it was
C14_UnreachableIs401 ==
  (pc[Client] = "done" /\ Verified /\ request.net = "down")
  => /\ response[Client].status = 401
     /\ users = before

OpsOfPath ==
  LET r == response[Client]
  IN CASE r.path = "exact" ->
            ops.lookups = 1 /\ ops.checks = 0 /\ ops.writes = 0
       [] r.path = "link" ->
            ops.lookups = 2 /\ ops.checks = 0 /\ ops.writes = 1
       [] r.path = "create" /\ r.status = 200 ->
            ops.lookups \in 1..2 /\ ops.checks >= 1 /\ ops.writes = 2
       [] r.path = "create" /\ r.status = 500 ->
            ops.lookups \in 1..2 /\ ops.checks >= 1 /\ ops.writes = 1
       [] r.path = "save" ->
            ops.lookups \in 1..2 /\ ops.checks >= 1 /\ ops.writes = 2
       [] OTHER -> ops.lookups = 0 /\ ops.checks = 0 /\ ops.writes = 0

LowerAlnum ==
  {ascii_lowercase[i] : i \in 1..Len(ascii_lowercase)}
    \cup {digits[i] : i \in 1..Len(digits)}

\* C17: a generated username is the part of the email before its first '@',
\* cut to at most its first 20 characters, then '_' and exactly 6 characters,
\* each a lowercase letter or a digit; for an absent email the local part is
\* the literal "user"
C17_UsernameFormat ==
  call.at = "returned" =>
    LET name == call.result
        n == Len(name) - 7
    IN /\ n \in 0..20
       /\ name[n + 1] = "_"
       /\ \A i \in (n + 2)..(n + 7) : name[i] \in LowerAlnum
       /\ IF call.email = <<>>
            THEN SubSeq(name, 1, n) = <<"u", "s", "e", "r">>
            ELSE /\ n <= Len(call.email)
                 /\ \A i \in 1..n :
                      name[i] = call.email[i] /\ call.email[i] # "@"
                 /\ \/ n = 20
                    \/ n = Len(call.email)
                    \/ call.email[n + 1] = "@"

C17_Witness ==
  /\ call.at = "returned"
  /\ call.email = Local(22) \o <<"@", "x", "@", "y">>
  /\ call.result = Local(20) \o <<"_", "a", "z", "0", "9", "a", "a">>

\* Some account has the username
Taken(name) == \E i \in 1..Len(users) : users[i].username = name

\* Some suffix gives the client's assertion a username no account has
FreeSuffix ==
  \E s \in Suffixes :
    ~Taken(generate_username(IF user_info[Client].email # NoEmail
                               THEN Address(user_info[Client].email)
                               ELSE UserPrefix,
                             Draws(s)))

\* C18: the loop is left only with a username that no account has at the
\* time of the check, and, when some suffix is free and the choice is fair,
\* it is left eventually
C18_LoopExits ==
  /\ [](pc[Client] = "create" => ~Taken(username[Client]))
  /\ (pc[Client] = "generate" /\ FreeSuffix)
       ~> (pc[Client] = "create" /\ ~Taken(username[Client]))

C18_Witness ==
  /\ pc[Client] = "create"
  /\ ops.checks >= 2
  /\ ~Taken(username[Client])
  /\ \E i \in 1..Len(users) :
       LocalPart(users[i].username) = LocalPart(username[Client])

\* The (provider, subject id) of an assertion or of an account
Binding(x) ==
  IF "sso_provider" \in DOMAIN x THEN <<x.sso_provider, x.sso_id>>
  ELSE <<x.provider, x.sso_id>>

\* The client's first call linked, by email, an account that was bound to
\* another identity
LinkedOver ==
  /\ callNo = 2
  /\ first.status = 200
  /\ first.path = "link"
  /\ before[first.user].sso_id # NullId

\* C20: a link by email replaces the account's earlier binding: after the
\* link the account is bound to the linking assertion's (provider, subject id)
\* only, and a later assertion with the earlier binding does not get the
\* account from the exact-match lookup
C20_LinkOverwrites ==
  /\ (pc[Client] = "done" /\ callNo = 1 /\ response[Client].status = 200
        /\ response[Client].path = "link")
     => /\ Binding(users[response[Client].user]) = Binding(user_info[Client])
        /\ AccountsOf(users, user_info[Client]) = {response[Client].user}
  /\ LinkedOver
     => /\ Binding(first.table[first.user]) = Binding(first.info)
        /\ Binding(first.table[first.user]) # Binding(before[first.user])
        /\ (/\ Binding(user_info[Client]) = Binding(before[first.user])
            /\ found[Client].sso # -1)
           => found[Client].sso # first.user

C20_Witness ==
  /\ LinkedOver
  /\ Binding(user_info[Client]) = Binding(before[first.user])
  /\ found[Client].sso = NoUser
  /\ pc[Client] = "done"

\* The handler got past validation: calculate_proficiency was invoked
Invoked(p) ==
  \/ onboarding[p].pc \in {"update_or_create", "save"}
  \/ onboarding[p].pc = "done" /\ onboarding[p].status = 200

\* The quiz score the handler works with: the body's, or 0 when the key is
\* missing
ScoreOf(p) ==
  IF onboarding[p].data.quiz_score = Absent THEN IntVal(0)
  ELSE onboarding[p].data.quiz_score

\* C15: calculate_proficiency gives a level for each of the integers 0..5:
\* beginner for 0 and 1, elementary for 2 and 3, intermediate for 4,
\* upper_intermediate for 5
C15_ProficiencyTable ==
  \A p \in Procs :
    (Invoked(p) /\ ScoreOf(p).type = "int" /\ ScoreOf(p).val \in 0..5)
    => onboarding[p].proficiency_level =
         <<"beginner", "beginner", "elementary", "elementary",
           "intermediate", "upper_intermediate">>[ScoreOf(p).val + 1]

C15_Witness ==
  /\ onboarding[Client].pc = "done"
  /\ onboarding[Client].status = 200
  /\ onboarding[Client].data.quiz_score = IntVal(5)
  /\ \E i \in 1..Len(profiles) :
       /\ profiles[i].user = onboarding[Client].user
       /\ profiles[i].proficiency_level = "upper_intermediate"

\* The body's quiz_score is there and is not an integer of 0..5
BadScore(p) ==
  LET q == onboarding[p].data.quiz_score
  IN /\ onboarding[p].pc # "idle"
     /\ q # Absent
     /\ \/ q.type # "int"
        \/ q.val < 0
        \/ q.val > 5

\* C16: calculate_proficiency is invoked with values of 0..5 only, and a
\* request whose quiz_score is not an integer, or is below 0 or above 5, is
\* answered 400 without a write of the profile or of onboarding_completed
C16_BadScoreRejected ==
  \A p \in Procs :
    /\ Invoked(p) => ScoreOf(p).val \in 0..5
    /\ BadScore(p) => /\ onboarding[p].pc = "done"
                      /\ onboarding[p].status = 400

\* C16 for every quiz_score but the JSON booleans
C16_ExceptBooleans ==
  \A p \in Procs :
    /\ Invoked(p) => ScoreOf(p).val \in 0..5
    /\ (BadScore(p) /\ onboarding[p].data.quiz_score.type # "bool")
       => /\ onboarding[p].pc = "done"
          /\ onboarding[p].status = 400

\* The step is the UPDATE of the email-link of handler p
Links(p) == pc[p] = "link" /\ pc'[p] = "done" /\ response'[p].status = 200

\* C21: no step of find_or_create_user removes an account, and the email-link
\* changes the provider and the subject id of the matched account only: its
\* id, email, username, names and onboarding_completed, and every other
\* account, stay as they were
C21_LinkTouchesBindingOnly ==
  [][/\ Len(users') >= Len(users)
     /\ \A p \in Procs :
          Links(p) =>
            /\ Len(users') = Len(users)
            /\ \A i \in 1..Len(users) :
                 IF i = user[p]
                   THEN /\ users'[i].email = users[i].email
                        /\ users'[i].username = users[i].username
                        /\ users'[i].first_name = users[i].first_name
                        /\ users'[i].last_name = users[i].last_name
                        /\ users'[i].password = users[i].password
                        /\ users'[i].onboarding_completed =
                             users[i].onboarding_completed
                        /\ Binding(users'[i]) = Binding(user_info[p])
                   ELSE users'[i] = users[i]]_vars

C21_Witness ==
  /\ pc[Client] = "done"
  /\ callNo = 1
  /\ response[Client].status = 200
  /\ response[Client].path = "link"
  /\ Len(users) = 2
  /\ users[response[Client].user].first_name # user_info[Client].first_name
  /\ Binding(before[response[Client].user]) # Binding(user_info[Client])

\* ---------------------------------------------------------------------------
\* C22: when the real verifier ran and the token carries a non-empty email,
\* the requests that differ from the one in progress only in the body's email
\* all have one and the same outcome (error, or the assertion handed to
\* find_or_create_user), and the assertion resolved carries the token's
\* email.  find_or_create_user reads the assertion and the table only, so the
\* account resolved and the table written are the same for all of them.
C22_BodyEmailUnused ==
  (request.verifier = "verify_sso_token" /\ request.token_email # NoEmail) =>
    /\ Cardinality(request.siblings) = 1
    /\ (pc[Client] = "done" /\ response[Client].status = 200 =>
          /\ user_info[Client].email = request.token_email
          /\ \A o \in request.siblings :
               o.error = "none" /\ o.info = user_info[Client])

\* an account was created from a token with an email, and the requests with
\* every other email in the body had the same outcome
C22_Witness ==
  /\ request.verifier = "verify_sso_token"
  /\ request.token_email # NoEmail
  /\ pc[Client] = "done"
  /\ response[Client].status = 200
  /\ response[Client].path = "create"
  /\ users[response[Client].user].email = request.token_email
  /\ Cardinality(request.siblings) = 1

\* ---------------------------------------------------------------------------
\* C23: with settings.DEBUG false the development verifier is never the one
\* sso_authenticate calls, whatever dev_mode the request carries;
\* verify_sso_token_dev raises TokenVerificationError for every input; and an
\* account is resolved or a row written only after verify_sso_token accepted
\* the token
C23_DevOnlyInDebug ==
  ~settings.DEBUG =>
    /\ request.verifier # "verify_sso_token_dev"
    /\ \A p \in Providers, j \in Jwts, e \in Emails :
         verify_sso_token_dev(p, j, e, settings).error = TokenVerificationError
    /\ (\/ pc[Client] \notin {"idle", "done"}
        \/ /\ pc[Client] = "done"
           /\ (response[Client].user # NoUser \/ users # before)) =>
         /\ request.verifier = "verify_sso_token"
         /\ request.net = "up"
         /\ ~Checked

\* a request with dev_mode set was answered with an account outside DEBUG
\* mode, through the real verifier
C23_Witness ==
  /\ ~settings.DEBUG
  /\ request.dev_mode
  /\ request.verifier = "verify_sso_token"
  /\ pc[Client] = "done"
  /\ response[Client].status = 200
  /\ users # before

\* ---------------------------------------------------------------------------
\* The step is the one with which handler p's complete_onboarding succeeds
Succeeds(p) ==
  /\ onboarding[p].pc = "save"
  /\ onboarding'[p].pc = "done"
  /\ onboarding'[p].status = 200

\* After the step account u has exactly one profile, with the language and
\* the level of the request of handler p, and has completed onboarding
Onboarded(p) ==
  LET o == onboarding[p]
      own == {i \in 1..Len(profiles') : profiles'[i].user = o.user}
  IN /\ Cardinality(own) = 1
     /\ \A i \in own :
          /\ profiles'[i].target_language = o.data.target_language
          /\ profiles'[i].proficiency_level =
               calculate_proficiency(ScoreOf(p).val)
     /\ users'[o.user].onboarding_completed

\* No step takes onboarding_completed of an account back to false
FlagStays ==
  \A i \in 1..Len(users) :
    users[i].onboarding_completed =>
      (i <= Len(users') /\ users'[i].onboarding_completed)

\* C24: a successful complete_onboarding leaves the user with exactly one
\* profile that holds the requested target_language and
\* calculate_proficiency(quiz_score), and with onboarding_completed true; and
\* no step of any request sets onboarding_completed back to false
C24_Completed ==
  [][(\A p \in Procs : Succeeds(p) => Onboarded(p)) /\ FlagStays]_vars

\* C24's first sentence alone, for requests served one at a time
C24_OneRequest == [][\A p \in Procs : Succeeds(p) => Onboarded(p)]_vars

\* C24's second sentence alone
C24_FlagStays == [][FlagStays]_vars

\* ---------------------------------------------------------------------------
\* The request handler p takes up with this step is one C25 speaks of: its
\* user has completed onboarding, or its target_language is none of es and
\* fr, or its body has a goals value that is no list
Refusable(p) ==
  LET o == onboarding'[p]
  IN /\ onboarding[p].pc = "idle"
     /\ o.pc # "idle"
     /\ \/ users[o.user].onboarding_completed
        \/ o.data.target_language \notin {"es", "fr"}
        \/ o.data.goals.type \notin {"list", "missing"}

\* C25: such a request is answered 400 at once, and neither that step nor
\* the sending of the answer changes the account table or the profile table
C25_RefusedUnchanged ==
  [][\A p \in Procs :
       /\ Refusable(p) => /\ onboarding'[p].pc = "done"
                          /\ onboarding'[p].status = 400
                          /\ users' = users
                          /\ profiles' = profiles
       /\ (onboarding[p].pc = "done" /\ onboarding[p].status = 400) =>
            (users' = users /\ profiles' = profiles)]_vars

\* a request with other values was refused for a user who has completed
\* onboarding and whose profile holds the values of the earlier request
C25_Witness ==
  LET o == onboarding[Client]
  IN /\ o.pc = "done"
     /\ o.status = 400
     /\ users[o.user].onboarding_completed
     /\ o.data.target_language = "fr"
     /\ \E i \in ProfilesOf(profiles, o.user) :
          profiles[i].target_language = "es"

\* ---------------------------------------------------------------------------
\* Handler p has answered its complete_onboarding request with success
Succeeded(p) == onboarding[p].pc = "done" /\ onboarding[p].status = 200

\* C26: of two complete_onboarding requests in flight for one user at most
\* one succeeds, and the profile holds the values of the one that did
C26_AtMostOneSucceeds ==
  \A p, q \in Procs :
    (p # q /\ onboarding[p].user = onboarding[q].user /\ Succeeded(p)) =>
      /\ ~Succeeded(q)
      /\ \A i \in ProfilesOf(profiles, onboarding[p].user) :
           profiles[i].target_language = onboarding[p].data.target_language

\* ---------------------------------------------------------------------------
\* The attempts recorded for account u
AttemptsOf(u) == {i \in 1..Len(attempts) : attempts[i].user = u}

\* The sum of duration_seconds // 60 over the first n attempts, those of
\* account u counted
RECURSIVE MinutesOf(_, _)
MinutesOf(u, n) ==
  IF n = 0 THEN 0
  ELSE MinutesOf(u, n - 1)
         + (IF attempts[n].user = u
              THEN Minutes(attempts[n].duration_seconds) ELSE 0)

\* no lesson_attempts request is in flight
Quiescent == \A p \in Procs : lesson[p].pc = "idle"

\* C27: once the POSTs have been answered, the profile's
\* total_lessons_completed has grown (from 0) by the number of attempts
\* recorded for its user and total_practice_minutes by the sum of
\* duration_seconds // 60 over them, also when POSTs overlapped
C27_NoLostIncrement ==
  Quiescent =>
    \A i \in 1..Len(profiles) :
      /\ profiles[i].total_lessons_completed =
           Cardinality(AttemptsOf(profiles[i].user))
      /\ profiles[i].total_practice_minutes =
           MinutesOf(profiles[i].user, Len(attempts))

\* three attempts of the user with the profile, served one after the other
C27_SeqWitness ==
  /\ Quiescent
  /\ Cardinality(AttemptsOf(1)) = MaxAttempts
  /\ profiles[1].total_lessons_completed = MaxAttempts
  /\ profiles[1].total_practice_minutes = 2 + 2 + 1

\* ---------------------------------------------------------------------------
\* There is no active lesson with this id
NoSuchLesson(lesson_id) ==
  \/ lesson_id \notin DOMAIN Lessons
  \/ ~Lessons[lesson_id].is_active

\* A duration_seconds the serializer refuses: text that is no numeral, a
\* boolean, a negative number
BadDuration(data) ==
  \/ data.type \in {"str", "bool"}
  \/ data.type \in {"int", "numstr"} /\ data.val < 0

\* C28: a GET or POST for a lesson id that does not exist or whose lesson is
\* inactive is answered 404, a POST for an active lesson with a body that
\* fails validation is answered 400, and neither records an attempt or
\* changes a profile
C28_RefusedRecordsNothing ==
  [][\A p \in Procs :
       LET o == lesson'[p]
           refused(status) == /\ o.pc = "done"
                              /\ o.status = status
                              /\ attempts' = attempts
                              /\ profiles' = profiles
       IN
       /\ (lesson[p].pc = "idle" /\ o.pc # "idle") =>
            /\ NoSuchLesson(o.lesson_id) => refused(404)
            /\ (/\ ~NoSuchLesson(o.lesson_id)
                /\ o.method = "POST"
                /\ BadDuration(o.data)) => refused(400)
       /\ (lesson[p].pc = "done" /\ lesson[p].status \in {400, 404}) =>
            (attempts' = attempts /\ profiles' = profiles)]_vars

\* a POST with a sound body for the inactive lesson was answered 404 when the
\* user had an attempt recorded and counted
C28_Witness ==
  /\ lesson[Client].pc = "done"
  /\ lesson[Client].status = 404
  /\ lesson[Client].method = "POST"
  /\ lesson[Client].lesson_id = 2
  /\ lesson[Client].data = IntVal(125)
  /\ lesson[Client].user = 1
  /\ Cardinality(AttemptsOf(1)) = 1
  /\ profiles[1].total_lessons_completed = 1

\* ---------------------------------------------------------------------------
\* The step is a request of operation op (a repetition of the last request
\* that changes nothing is a stuttering step)
Serves(op) == answer' # answer /\ answer'.op = op

\* C29: logout always answers with success, also without a refresh token and
\* with an invalid one; after logout with a valid refresh token the token is
\* blacklisted, and no token refresh with it succeeds any more
C29_LogoutRevokes ==
  [][/\ Serves("logout") =>
          /\ answer'.status = 200
          /\ \A t \in answer'.revoked : t \in blacklist'
     /\ (Serves("refresh") /\ answer'.status = 200) =>
          answer'.body \notin answer.revoked]_vars

\* C29's second half alone: logout always answers 200
C29_AlwaysSuccess == [][Serves("logout") => answer'.status = 200]_vars

\* The columns of an account but its two names
Rest(row) ==
  [k \in DOMAIN row \ {"first_name", "last_name"} |-> row[k]]

\* C30: update_current_user leaves every other account as it was, changes
\* of the requesting account at most first_name and last_name, and of these
\* only the ones in the body, whatever other keys the body has
C30_OnlyNames ==
  [][Serves("update_current_user") =>
       LET u == answer'.user
           body == answer'.body
       IN /\ Len(users') = Len(users)
          /\ \A i \in 1..Len(users) : i # u => users'[i] = users[i]
          /\ Rest(users'[u]) = Rest(users[u])
          /\ body.first_name = Absent =>
               users'[u].first_name = users[u].first_name
          /\ body.last_name = Absent =>
               users'[u].last_name = users[u].last_name]_vars

\* a body with first_name, email, sso_id and onboarding_completed and
\* without last_name was served: the first name is the body's, the email,
\* the subject id and the flag are the account's own
C30_Witness ==
  /\ answer.op = "update_current_user"
  /\ answer.status = 200
  /\ answer.user = 1
  /\ answer.body = [first_name |-> StrVal(1), last_name |-> Absent,
                    email |-> StrVal(MaxEmails), sso_id |-> StrVal(MaxSubjects),
                    onboarding_completed |-> BoolVal(0)]
  /\ users[1].first_name = 1
  /\ users[1].email = 1
  /\ users[1].sso_id = 1
  /\ users[1].onboarding_completed

=============================================================================
